---- MODULE Spec2Model ----
(***************************************************************************)
(* include_dir, src/file.rs: the File value and, in builds with            *)
(* debug_assertions, the process-wide FILES_CACHE that File::contents      *)
(* fills from disk on first use.                                           *)
(*                                                                         *)
(* A thread's call of contents() is modelled statement by statement        *)
(* (pc): Lazy deref, Mutex::lock, contains_key, fs::read, insert, get and  *)
(* the drop of the guard.  A panic unwinds the calling thread; a panic     *)
(* raised while the guard is held poisons the mutex (std::sync::Mutex).    *)
(* fs::read is taken as one atomic snapshot of the file.                   *)
(***************************************************************************)
EXTENDS Integers, Sequences, FiniteSets, TLC

\* ------------------------------------------------------------------ bounds
NThreads == 2
MaxReads == 2
MaxChain == 2

Threads == 1..NThreads
NoThread == 0

\* --------------------------------------------------------------- universes
\* the embedded trees: root /r1 holds a and b, root /r2 holds its own a
Embedded == {<<"/r1", "a">>, <<"/r1", "b">>, <<"/r2", "a">>}
Paths == {e[2] : e \in Embedded}
NoPrefix == ""
ContentPool == {<< >>, <<255>>}
None == << >>
Some(m) == <<m>>
Metadatas == {"m1", "m2"}
Methods == {"contents", "contents_utf8"}

\* std::path::MAIN_SEPARATOR
MAIN_SEPARATOR == "/"

\* io::Result<Vec<u8>>
Ok(b) == [ok |-> TRUE, v |-> b]
Err == [ok |-> FALSE, v |-> << >>]
ReadResults == {Ok(b) : b \in ContentPool} \cup {Err}

VARIABLES
    debug_assertions,   \* cfg(debug_assertions): fixed at build time
    disk,               \* the filesystem: real path -> io::Result of fs::read
    lazy_init,          \* FILES_CACHE's Lazy has run its initialiser
    cache,              \* the HashMap inside FILES_CACHE: key -> bytes
    holder,             \* the thread holding the MutexGuard, or NoThread
    poisoned,           \* the Mutex's poison flag
    pc,                 \* each thread's position in contents()
    self,               \* the File each thread's call is on
    op,                 \* the method each thread's completed call was made through
    value,              \* the local `value` of each thread (Ok(bytes) once read)
    ret,                \* what each thread's call has just returned, or how it died
    reg,                \* a File value held by the program (value operations)
    out,                \* the value operation applied last, its operands and result
    chain,              \* history: metadata passed to with_metadata since new()
    born,               \* history: the path reg's File was given by new()
    inits,              \* history: times the Lazy initialiser has run
    reads,              \* history: fs::read calls made for each key
    origin,             \* history: real path each cache entry was read from
    first               \* history: first bytes contents() returned per File

build == <<debug_assertions>>
lockVars == <<holder, poisoned>>
cacheVars == <<lazy_init, cache, inits, origin>>
threadVars == <<pc, self, op, value, ret>>
valueVars == <<reg, out, chain, born>>

vars == <<build, disk, lockVars, cacheVars, threadVars, valueVars, reads, first>>

\* --------------------------------------------------------------- the File
\* File::new
new(path, contents, prefix) ==
    [path |-> path,
     contents |-> contents,
     metadata |-> None,
     prefix |-> IF debug_assertions THEN prefix ELSE NoPrefix]

\* the File values the embedding builds
Files == {new(e[2], c, e[1]) : e \in Embedded, c \in ContentPool}

NoFile == [path |-> "", contents |-> << >>, metadata |-> None, prefix |-> NoPrefix]

\* nothing rendered
NoRender ==
    [fields |-> << >>, path |-> "", contents |-> [fmt |-> "", arg |-> 0],
     metadata |-> None, prefix |-> NoPrefix]

NoOut == [op |-> "none", arg |-> NoFile, other |-> NoFile, flag |-> FALSE,
          meta |-> None, text |-> "", render |-> NoRender]

\* real_path in File::contents
real_path(f) == f.prefix \o MAIN_SEPARATOR \o f.path

RealPaths == {e[1] \o MAIN_SEPARATOR \o e[2] : e \in Embedded}

\* std::fs::read
fs_read(rp) == disk[rp]

\* HashMap::contains_key
contains_key(m, k) == k \in DOMAIN m

\* HashMap::insert
insert(m, k, v) == [x \in DOMAIN m \cup {k} |-> IF x = k THEN v ELSE m[x]]

\* outcomes of a call
NoRet == [kind |-> "none", bytes |-> << >>, resolvable |-> FALSE]
Returned(b) == [kind |-> "bytes", bytes |-> b, resolvable |-> FALSE]
SomeText(b) == [kind |-> "text", bytes |-> b, resolvable |-> FALSE]
NoValue == [kind |-> "no_value", bytes |-> << >>, resolvable |-> FALSE]
Panicked(why, res) == [kind |-> why, bytes |-> << >>, resolvable |-> res]
PanicKinds == {"read_failed", "poisoned", "get_failed", "utf8_error"}

\* history of the first bytes returned for a File
Remember(f, b) == IF f \in DOMAIN first THEN first ELSE insert(first, f, b)

Bump(n) == IF n < MaxReads THEN n + 1 ELSE n

\* ------------------------------------------------------------- from_utf8
Cont(b) == b \in 128..191

\* length of the well-formed UTF-8 sequence at the head of s, 0 if there is none
Utf8Head(s) ==
    LET n == Len(s)
        b == s[1]
    IN IF b < 128 THEN 1
       ELSE IF b \in 194..223 THEN (IF n >= 2 /\ Cont(s[2]) THEN 2 ELSE 0)
       ELSE IF b \in 224..239
            THEN (IF /\ n >= 3
                     /\ Cont(s[3])
                     /\ s[2] \in (IF b = 224 THEN 160..191
                                  ELSE IF b = 237 THEN 128..159 ELSE 128..191)
                  THEN 3 ELSE 0)
       ELSE IF b \in 240..244
            THEN (IF /\ n >= 4
                     /\ Cont(s[3])
                     /\ Cont(s[4])
                     /\ s[2] \in (IF b = 240 THEN 144..191
                                  ELSE IF b = 244 THEN 128..143 ELSE 128..191)
                  THEN 4 ELSE 0)
       ELSE 0

RECURSIVE from_utf8(_)
\* std::str::from_utf8(..).is_ok()
from_utf8(s) ==
    IF s = << >> THEN TRUE
    ELSE LET k == Utf8Head(s) IN
         IF k = 0 THEN FALSE ELSE from_utf8(SubSeq(s, k + 1, Len(s)))

contents_utf8_unchecked(b) == SomeText(b)

contents_utf8_unwrap(b) ==
    IF from_utf8(b) THEN SomeText(b) ELSE Panicked("utf8_error", FALSE)

\* File::contents_utf8, applied to the bytes contents() returned
contents_utf8(b) == IF from_utf8(b) THEN SomeText(b) ELSE NoValue

\* what the called method hands back once contents() has returned b
result(o, b) == IF o = "contents_utf8" THEN contents_utf8(b) ELSE Returned(b)

after(r) == IF r.kind \in PanicKinds THEN "panicked" ELSE "returned"

\* ------------------------------------------------------------------- Init
\* the process at its start, in either build
InitProcess ==
    /\ debug_assertions \in BOOLEAN
    /\ lazy_init = FALSE
    /\ cache = << >>
    /\ holder = NoThread
    /\ poisoned = FALSE
    /\ pc = [t \in Threads |-> "idle"]
    /\ self = [t \in Threads |-> NoFile]
    /\ op = [t \in Threads |-> "contents"]
    /\ value = [t \in Threads |-> Err]
    /\ ret = [t \in Threads |-> NoRet]
    /\ reg = NoFile
    /\ out = NoOut
    /\ chain = << >>
    /\ born = ""
    /\ inits = 0
    /\ reads = [p \in Paths |-> 0]
    /\ origin = << >>
    /\ first = << >>

Init ==
    /\ disk \in [RealPaths -> ReadResults]
    /\ InitProcess

\* --------------------------------------------------------- File::contents
contents_release_empty(f) == << >>

\* cfg(not(debug_assertions)): self.contents
contents_release(f) == f.contents

\* contents() in a release build: one read of the immutable field
ContentsRelease(t, f, o) ==
    /\ ~debug_assertions
    /\ pc[t] = "idle"
    /\ pc' = [pc EXCEPT ![t] = after(result(o, contents_release(f)))]
    /\ self' = [self EXCEPT ![t] = f]
    /\ op' = [op EXCEPT ![t] = o]
    /\ ret' = [ret EXCEPT ![t] = result(o, contents_release(f))]
    /\ first' = Remember(f, contents_release(f))
    /\ UNCHANGED <<build, disk, lockVars, cacheVars, value, valueVars, reads>>

must_init_always == TRUE

\* whether the Lazy initialiser has to run
must_init == ~lazy_init

\* entry of contents() in a debug build, up to the deref of FILES_CACHE:
\* once_cell runs the initialiser on the first access only.  contents_utf8()
\* starts by calling contents() and does nothing before it, so a call made
\* through either method runs these same steps; which of the two it was
\* shows from the return (or the panic) of contents() on, where op records it.
Call(t, f) ==
    /\ debug_assertions
    /\ pc[t] = "idle"
    /\ self' = [self EXCEPT ![t] = f]
    /\ lazy_init' = TRUE
    /\ inits' = IF must_init THEN inits + 1 ELSE inits
    /\ cache' = IF must_init THEN << >> ELSE cache
    /\ origin' = IF must_init THEN << >> ELSE origin
    /\ pc' = [pc EXCEPT ![t] = "lock"]
    /\ UNCHANGED <<build, disk, lockVars, op, value, ret, valueVars, reads, first>>

can_lock_always(t) == TRUE

\* whether lock() can take the mutex
can_lock(t) == holder = NoThread

\* .lock().unwrap(): blocks while held; a poisoned mutex makes unwrap panic
Lock(t) ==
    /\ pc[t] = "lock"
    /\ can_lock(t)
    /\ IF poisoned
       THEN /\ pc' = [pc EXCEPT ![t] = "panicked"]
            /\ self' = [self EXCEPT ![t] = NoFile]
            /\ \E o \in Methods : op' = [op EXCEPT ![t] = o]
            /\ ret' = [ret EXCEPT ![t] =
                   Panicked("poisoned",
                            \/ contains_key(cache, self[t].path)
                            \/ fs_read(real_path(self[t])).ok)]
            /\ UNCHANGED holder
       ELSE /\ pc' = [pc EXCEPT ![t] = "check"]
            /\ holder' = t
            /\ UNCHANGED <<ret, self, op>>
    /\ UNCHANGED <<build, disk, poisoned, cacheVars, value,
                   valueVars, reads, first>>

must_read_always(t) == TRUE

\* the condition of `if !cache.contains_key(self.path)`
must_read(t) == ~contains_key(cache, self[t].path)

Check(t) ==
    /\ pc[t] = "check"
    /\ pc' = [pc EXCEPT ![t] = IF must_read(t) THEN "read" ELSE "get"]
    /\ UNCHANGED <<build, disk, lockVars, cacheVars, self, op, value, ret,
                   valueVars, reads, first>>

\* a guard dropped while its thread panics poisons the mutex
poison_on_panic == TRUE

Read_keeps_lock(t) ==
    /\ pc[t] = "read"
    /\ reads' = [reads EXCEPT ![self[t].path] = Bump(@)]
    /\ LET r == fs_read(real_path(self[t])) IN
       IF r.ok
       THEN /\ value' = [value EXCEPT ![t] = r]
            /\ pc' = [pc EXCEPT ![t] = "insert"]
            /\ UNCHANGED <<ret, self, op>>
       ELSE /\ pc' = [pc EXCEPT ![t] = "panicked"]
            /\ self' = [self EXCEPT ![t] = NoFile]
            /\ \E o \in Methods : op' = [op EXCEPT ![t] = o]
            /\ ret' = [ret EXCEPT ![t] = Panicked("read_failed", FALSE)]
            /\ UNCHANGED value
    /\ UNCHANGED <<build, disk, lockVars, cacheVars, valueVars, first>>

Read_or_default(t) ==
    /\ pc[t] = "read"
    /\ reads' = [reads EXCEPT ![self[t].path] = Bump(@)]
    /\ value' = [value EXCEPT ![t] = Ok(fs_read(real_path(self[t])).v)]
    /\ pc' = [pc EXCEPT ![t] = "insert"]
    /\ UNCHANGED <<build, disk, lockVars, cacheVars, self, op, ret,
                   valueVars, first>>

\* std::fs::read(real_path).unwrap(): Err panics with the guard held
Read(t) ==
    /\ pc[t] = "read"
    /\ reads' = [reads EXCEPT ![self[t].path] = Bump(@)]
    /\ LET r == fs_read(real_path(self[t])) IN
       IF r.ok
       THEN /\ value' = [value EXCEPT ![t] = r]
            /\ pc' = [pc EXCEPT ![t] = "insert"]
            /\ UNCHANGED <<lockVars, ret, self, op>>
       ELSE /\ pc' = [pc EXCEPT ![t] = "panicked"]
            /\ self' = [self EXCEPT ![t] = NoFile]
            /\ \E o \in Methods : op' = [op EXCEPT ![t] = o]
            /\ ret' = [ret EXCEPT ![t] = Panicked("read_failed", FALSE)]
            /\ holder' = NoThread
            /\ poisoned' = (poisoned \/ poison_on_panic)
            /\ UNCHANGED value
    /\ UNCHANGED <<build, disk, cacheVars, valueVars, first>>

\* the key of cache.insert(key, value)
key(f) == f.path

\* cache.insert(key, value)
Insert(t) ==
    /\ pc[t] = "insert"
    /\ cache' = insert(cache, key(self[t]), value[t].v)
    /\ origin' = insert(origin, key(self[t]), real_path(self[t]))
    /\ value' = [value EXCEPT ![t] = Err]
    /\ pc' = [pc EXCEPT ![t] = "get"]
    /\ UNCHANGED <<build, disk, lockVars, lazy_init, inits, self, op, ret,
                   valueVars, reads, first>>

\* cache.get(self.path).unwrap(), the drop of the guard, and the return
Get(t) ==
    /\ pc[t] = "get"
    /\ holder' = NoThread
    /\ \E o \in Methods :
         /\ op' = [op EXCEPT ![t] = o]
         /\ IF contains_key(cache, self[t].path)
            THEN LET r == result(o, cache[self[t].path]) IN
                 /\ ret' = [ret EXCEPT ![t] = r]
                 /\ first' = Remember(self[t], cache[self[t].path])
                 /\ pc' = [pc EXCEPT ![t] = after(r)]
                 /\ UNCHANGED <<poisoned, self>>
            ELSE /\ ret' = [ret EXCEPT ![t] = Panicked("get_failed", FALSE)]
                 /\ pc' = [pc EXCEPT ![t] = "panicked"]
                 /\ self' = [self EXCEPT ![t] = NoFile]
                 /\ poisoned' = (poisoned \/ poison_on_panic)
                 /\ UNCHANGED first
    /\ UNCHANGED <<build, disk, cacheVars, value, valueVars, reads>>

\* the caller is done with what its call returned
Forget(t) ==
    /\ pc[t] = "returned"
    /\ pc' = [pc EXCEPT ![t] = "idle"]
    /\ self' = [self EXCEPT ![t] = NoFile]
    /\ op' = [op EXCEPT ![t] = "contents"]
    /\ ret' = [ret EXCEPT ![t] = NoRet]
    /\ UNCHANGED <<build, disk, lockVars, cacheVars, value, valueVars,
                   reads, first>>

\* the environment rewrites, creates or deletes a file
DiskChange(rp, r) ==
    /\ debug_assertions
    /\ disk[rp] # r
    /\ disk' = [disk EXCEPT ![rp] = r]
    /\ UNCHANGED <<build, lockVars, cacheVars, threadVars, valueVars,
                   reads, first>>

\* the Files contents() is called on in a debug build: the contents field
\* is not read there
DebugFiles == {f \in Files : f.contents = << >>}

Next ==
    \/ \E t \in Threads, f \in DebugFiles : Call(t, f)
    \/ \E t \in Threads, f \in Files, o \in Methods : ContentsRelease(t, f, o)
    \/ \E t \in Threads : Lock(t)
    \/ \E t \in Threads : Check(t)
    \/ \E t \in Threads : Read(t)
    \/ \E t \in Threads : Insert(t)
    \/ \E t \in Threads : Get(t)
    \/ \E t \in Threads : Forget(t)
    \/ \E rp \in RealPaths, r \in ReadResults : DiskChange(rp, r)

Spec == Init /\ [][Next]_vars

\* the threads are scheduled fairly: a thread inside contents() that can take
\* its next step and stays able to, takes it (a disk read that is begun
\* ends).  std::sync::Mutex promises no order among the threads that wait:
\* a waiter takes the lock if the lock stays free, and may be overtaken.
SpecFair ==
    /\ Spec
    /\ \A t \in Threads :
          /\ WF_vars(Lock(t))
          /\ WF_vars(Check(t))
          /\ WF_vars(Read(t))
          /\ WF_vars(Insert(t))
          /\ WF_vars(Get(t))

\* ------------------------------------------- the other methods of File
\* (built with the "metadata" feature)
with_metadata_keep_first(f, m) ==
    [path |-> f.path,
     contents |-> f.contents,
     metadata |-> IF f.metadata = None THEN Some(m) ELSE f.metadata,
     prefix |-> f.prefix]

with_metadata_drop_prefix(f, m) ==
    [path |-> f.path,
     contents |-> f.contents,
     metadata |-> Some(m),
     prefix |-> NoPrefix]

\* File::with_metadata
with_metadata(f, m) ==
    [path |-> f.path,
     contents |-> f.contents,
     metadata |-> Some(m),
     prefix |-> f.prefix]

\* File::metadata
metadata(f) == f.metadata

eq_no_prefix(a, b) ==
    /\ a.path = b.path
    /\ a.contents = b.contents
    /\ a.metadata = b.metadata

\* derive(PartialEq, Eq) on File: every field the build has, in turn
eq(a, b) ==
    /\ a.path = b.path
    /\ a.contents = b.contents
    /\ a.metadata = b.metadata
    /\ a.prefix = b.prefix

fmt_raw(f) ==
    [fields |-> <<"path", "contents", "metadata">>
                \o (IF debug_assertions THEN <<"prefix">> ELSE << >>),
     path |-> f.path,
     contents |-> [fmt |-> "{:?}", arg |-> Len(f.contents), raw |-> f.contents],
     metadata |-> f.metadata,
     prefix |-> f.prefix]

\* <File as Debug>::fmt: the debug_struct "File", its fields in order, the
\* contents field rendered by format!("<{} bytes>", contents.len())
fmt(f) ==
    [fields |-> <<"path", "contents", "metadata">>
                \o (IF debug_assertions THEN <<"prefix">> ELSE << >>),
     path |-> f.path,
     contents |-> [fmt |-> "<{} bytes>", arg |-> Len(f.contents)],
     metadata |-> f.metadata,
     prefix |-> f.prefix]

\* the File values new() and with_metadata() build from the universes
Values == Files \cup {with_metadata(f, m) : f \in Files, m \in Metadatas}

\* what a contents() call on f beginning in this state comes to, as a Result
Resolve(f) ==
    IF ~debug_assertions THEN Ok(contents_release(f))
    ELSE IF poisoned THEN Err
    ELSE IF contains_key(cache, f.path) THEN Ok(cache[f.path])
    ELSE fs_read(real_path(f))

New(path, contents, prefix) ==
    /\ reg' = new(path, contents, prefix)
    /\ chain' = << >>
    /\ born' = path
    /\ out' = [NoOut EXCEPT !.op = "new"]
    /\ UNCHANGED <<build, disk, lockVars, cacheVars, threadVars, reads, first>>

WithMetadata(m) ==
    /\ reg # NoFile
    /\ Len(chain) < MaxChain
    /\ reg' = with_metadata(reg, m)
    /\ chain' = Append(chain, m)
    /\ out' = [NoOut EXCEPT !.op = "with_metadata", !.arg = reg, !.meta = Some(m)]
    /\ UNCHANGED <<build, disk, lockVars, cacheVars, threadVars, born, reads, first>>

Metadata ==
    /\ reg # NoFile
    /\ out' = [NoOut EXCEPT !.op = "metadata", !.arg = reg, !.meta = metadata(reg)]
    /\ UNCHANGED <<build, disk, lockVars, cacheVars, threadVars, reg, chain,
                   born, reads, first>>

Eq_resolving(g) ==
    /\ reg # NoFile
    /\ out' = [NoOut EXCEPT !.op = "eq", !.arg = reg, !.other = g,
                            !.flag = eq(reg, g)]
    /\ reads' = IF debug_assertions
                THEN [reads EXCEPT ![reg.path] = Bump(@)] ELSE reads
    /\ cache' = IF debug_assertions /\ fs_read(real_path(reg)).ok
                THEN insert(cache, reg.path, fs_read(real_path(reg)).v)
                ELSE cache
    /\ UNCHANGED <<build, disk, lockVars, lazy_init, inits, origin, threadVars,
                   reg, chain, born, first>>

\* reg == g
Eq(g) ==
    /\ reg # NoFile
    /\ out' = [NoOut EXCEPT !.op = "eq", !.arg = reg, !.other = g,
                            !.flag = eq(reg, g)]
    /\ UNCHANGED <<build, disk, lockVars, cacheVars, threadVars, reg, chain,
                   born, reads, first>>

\* File::path
path(f) == f.path

\* reg.path()
Path ==
    /\ reg # NoFile
    /\ out' = [NoOut EXCEPT !.op = "path", !.arg = reg, !.text = path(reg)]
    /\ UNCHANGED <<build, disk, lockVars, cacheVars, threadVars, reg, chain,
                   born, reads, first>>

\* format!("{:?}", reg)
Fmt ==
    /\ reg # NoFile
    /\ out' = [NoOut EXCEPT !.op = "fmt", !.arg = reg, !.render = fmt(reg)]
    /\ UNCHANGED <<build, disk, lockVars, cacheVars, threadVars, reg, chain,
                   born, reads, first>>

NextValue ==
    \/ \E e \in Embedded, c \in ContentPool : New(e[2], c, e[1])
    \/ \E m \in Metadatas : WithMetadata(m)
    \/ Metadata
    \/ \E g \in Values : Eq(g)
    \/ Path
    \/ Fmt

SpecValue == Init /\ [][NextValue]_vars

\* the same program with every embedded file on disk, holding the bytes that
\* were embedded for it, and never changed
InitStable ==
    /\ Init
    /\ debug_assertions
    /\ \A rp \in RealPaths : disk[rp].ok

\* the Files whose embedded bytes are the bytes of their on-disk file
StableFiles == {f \in Files : Ok(f.contents) = fs_read(real_path(f))}

NextStable ==
    \/ \E t \in Threads, f \in StableFiles : Call(t, f)
    \/ \E t \in Threads : Lock(t)
    \/ \E t \in Threads : Check(t)
    \/ \E t \in Threads : Read(t)
    \/ \E t \in Threads : Insert(t)
    \/ \E t \in Threads : Get(t)
    \/ \E t \in Threads : Forget(t)

SpecStable == InitStable /\ [][NextStable]_vars

\* ------------------------------------------------ contents_utf8 on text
\* byte strings that are UTF-8: empty, ASCII, and sequences of 2, 3 and 4 bytes
ValidUtf8 ==
    {<< >>, <<104>>, <<104, 105>>, <<195, 169>>, <<226, 130, 172>>,
     <<240, 159, 152, 128>>, <<104, 195, 169>>}

\* byte strings that are not: a byte no sequence has, a stray continuation
\* byte, truncated sequences, an overlong form, a surrogate, a code point
\* above U+10FFFF, and a bad byte after good text
InvalidUtf8 ==
    {<<255>>, <<128>>, <<195>>, <<226, 130>>, <<192, 128>>, <<237, 160, 128>>,
     <<244, 144, 128, 128>>, <<104, 255>>, <<195, 169, 195>>}

Utf8Pool == ValidUtf8 \cup InvalidUtf8

\* every embedded file holds the same one of these byte strings, on disk and
\* in the contents field, and can be read
InitUtf8 ==
    /\ \E c \in Utf8Pool : disk = [rp \in RealPaths |-> Ok(c)]
    /\ InitProcess

\* the Files built with the bytes of their on-disk file
Utf8Files ==
    {new(e[2], fs_read(e[1] \o MAIN_SEPARATOR \o e[2]).v, e[1]) : e \in Embedded}

NextUtf8 ==
    \/ \E t \in Threads, f \in Utf8Files : Call(t, f)
    \/ \E t \in Threads, f \in Utf8Files, o \in Methods : ContentsRelease(t, f, o)
    \/ \E t \in Threads : Lock(t)
    \/ \E t \in Threads : Check(t)
    \/ \E t \in Threads : Read(t)
    \/ \E t \in Threads : Insert(t)
    \/ \E t \in Threads : Get(t)
    \/ \E t \in Threads : Forget(t)

SpecUtf8 == InitUtf8 /\ [][NextUtf8]_vars

\* ----------------------------------------------------------------- claims

\* C1: in a debug build, whatever the interleaving of the threads' calls, at
\* most one fs::read is ever made for a path, and every contents() call that
\* has returned for that path was served after exactly one read with the bytes
\* the cache holds, so that all callers of one path hold identical bytes.
C1_OneReadSharedBytes ==
    debug_assertions =>
        /\ \A p \in Paths : reads[p] <= 1
        /\ \A t \in Threads :
              (pc[t] = "returned" /\ ret[t].kind = "bytes") =>
                 /\ reads[self[t].path] = 1
                 /\ contains_key(cache, self[t].path)
                 /\ ret[t].bytes = cache[self[t].path]
                 /\ \A u \in Threads :
                       (/\ pc[u] = "returned"
                        /\ ret[u].kind = "bytes"
                        /\ self[u].path = self[t].path)
                       => ret[u].bytes = ret[t].bytes

\* every thread has returned from contents() on the same path after one read
C1_Witness ==
    /\ debug_assertions
    /\ reads["a"] = 1
    /\ \A t \in Threads :
          pc[t] = "returned" /\ ret[t].kind = "bytes" /\ self[t].path = "a"

C3_ReadFromOwnRoot ==
    \A t \in Threads :
        (debug_assertions /\ pc[t] = "returned") =>
            /\ contains_key(origin, self[t].path)
            /\ origin[self[t].path] = real_path(self[t])

\* C4: the step of a call that reads a missing or unreadable file ends the
\* call in a panic: nothing is returned, the read is made once, the cache
\* table is left as it was, and the dead call never resumes.
C4_ReadFailureIsFatal ==
    [][\A t \in Threads :
          /\ (/\ pc[t] = "read"
              /\ pc'[t] # "read"
              /\ ~fs_read(real_path(self[t])).ok)
             => /\ pc'[t] = "panicked"
                /\ ret'[t].kind = "read_failed"
                /\ ret'[t].bytes = << >>
                /\ cache' = cache
                /\ reads'[self[t].path] = reads[self[t].path] + 1
          /\ pc[t] = "panicked" => (pc'[t] = "panicked" /\ cache' = cache)
      ]_vars

\* a call has died on its read while the cache held an entry
C4_Witness ==
    \E t \in Threads :
        /\ pc[t] = "panicked"
        /\ ret[t].kind = "read_failed"
        /\ cache # << >>
        /\ \A p \in DOMAIN cache : reads[p] = 1

\* C5: no call for a path that is cached, or whose file is readable, fails
\* because an earlier call for another path failed on its disk read.
C5_FailureStaysLocal ==
    \A t \in Threads : ~(ret[t].kind = "poisoned" /\ ret[t].resolvable)

\* C6 as stated: no contents_utf8() call ever panics.
C6_Utf8NeverPanics ==
    \A t \in Threads : pc[t] = "panicked" => op[t] # "contents_utf8"

\* C6, amended: contents_utf8() has no failure of its own.  A call through it
\* that has returned holds the text or no value; one that has panicked did so
\* inside contents(), in a debug build, on a failed disk read or on the
\* poisoned lock; in a release build it never panics.
C6_Utf8FailsOnlyInContents ==
    \A t \in Threads :
        op[t] = "contents_utf8" =>
            /\ pc[t] = "returned" => ret[t].kind \in {"text", "no_value"}
            /\ pc[t] = "panicked" =>
                  /\ debug_assertions
                  /\ ret[t].kind \in {"read_failed", "poisoned"}

\* contents_utf8() has returned no value for bytes that are not UTF-8
C6_Witness ==
    \E t \in Threads :
        /\ op[t] = "contents_utf8"
        /\ pc[t] = "returned"
        /\ ret[t].kind = "no_value"
        /\ ~from_utf8(IF debug_assertions THEN cache[self[t].path]
                      ELSE self[t].contents)

\* C7: with every embedded file on disk, unchanged and holding the embedded
\* bytes, contents() in a debug build returns what a release build returns.
C7_DebugSameAsRelease ==
    \A t \in Threads :
        (pc[t] = "returned" /\ ret[t].kind = "bytes") =>
            ret[t].bytes = contents_release(self[t])

\* C8: in a release build contents() returns the bytes the File was built
\* with, to every caller; no call fails, no file is read, and the cache, its
\* Lazy and its lock are never touched.
C8_ReleaseReturnsField ==
    ~debug_assertions =>
        /\ \A t \in Threads :
              /\ pc[t] \in {"idle", "returned"}
              /\ (pc[t] = "returned" /\ ret[t].kind = "bytes")
                    => ret[t].bytes = self[t].contents
              /\ (pc[t] = "returned" /\ ret[t].kind = "text")
                    => ret[t].bytes = self[t].contents
        /\ \A p \in Paths : reads[p] = 0
        /\ ~lazy_init /\ inits = 0 /\ cache = << >>
        /\ holder = NoThread /\ ~poisoned

\* every thread holds the bytes of its own File, and they are not all empty
C8_Witness ==
    /\ ~debug_assertions
    /\ \A t \in Threads : pc[t] = "returned" /\ ret[t].kind = "bytes"
    /\ \E t, u \in Threads : ret[t].bytes = <<255>> /\ ret[u].bytes = << >>

\* C9 as stated, for Files whose content resolves: == holds exactly when the
\* path, the bytes contents() resolves to and the metadata are equal.
C9_EqualIffPathContentMetadata ==
    (out.op = "eq" /\ Resolve(out.arg).ok /\ Resolve(out.other).ok) =>
        (out.flag <=> /\ out.arg.path = out.other.path
                      /\ Resolve(out.arg) = Resolve(out.other)
                      /\ out.arg.metadata = out.other.metadata)

\* C9, amended: == holds exactly when the path, the contents field, the
\* metadata and, in a debug build, the prefix are equal.
C9_EqualIffAllFields ==
    out.op = "eq" =>
        (out.flag <=> /\ out.arg.path = out.other.path
                      /\ out.arg.contents = out.other.contents
                      /\ out.arg.metadata = out.other.metadata
                      /\ debug_assertions => out.arg.prefix = out.other.prefix)

\* two Files of a debug build that agree on path, contents field, metadata
\* and resolved content, and differ in their prefix, have compared unequal
C9_Witness ==
    /\ debug_assertions
    /\ out.op = "eq"
    /\ ~out.flag
    /\ out.arg.path = out.other.path
    /\ out.arg.contents = out.other.contents
    /\ out.arg.metadata = out.other.metadata
    /\ out.arg.metadata # None
    /\ Resolve(out.arg).ok
    /\ Resolve(out.arg) = Resolve(out.other)

\* C10: with_metadata(m) keeps the path, the contents field and the prefix,
\* and with them what contents() resolves to; metadata() then returns m, and
\* returns nothing for a File that new() built and with_metadata never took.
C10_WithMetadataKeepsTheRest ==
    /\ out.op = "with_metadata" =>
          /\ reg.path = out.arg.path
          /\ reg.contents = out.arg.contents
          /\ reg.prefix = out.arg.prefix
          /\ metadata(reg) = out.meta
          /\ Resolve(reg) = Resolve(out.arg)
    /\ out.op = "new" => metadata(reg) = None
    /\ out.op = "metadata" =>
          out.meta = IF chain = << >> THEN None ELSE Some(chain[Len(chain)])

\* metadata has just been attached to a File of a debug build whose content
\* resolves to bytes
C10_Witness ==
    /\ debug_assertions
    /\ out.op = "with_metadata"
    /\ out.arg.metadata = None
    /\ reg.metadata = Some("m1")
    /\ reg.prefix = "/r2"
    /\ Resolve(reg) = Ok(<<255>>)

\* C11 as stated: along a chain of with_metadata calls from one new(), the
\* metadata is set by the first call and never replaced afterwards.
C11_AttachedOnce ==
    chain # << >> => metadata(reg) = Some(chain[1])

\* C11, amended: with_metadata may be applied any number of times along a
\* chain; the metadata is absent exactly until the first application, and
\* after every application it is the value passed last, so that a later call
\* replaces what an earlier one attached.  The value handed in is consumed,
\* never changed in place.
C11_LastAttachedWins ==
    /\ reg # NoFile =>
          metadata(reg) = IF chain = << >> THEN None ELSE Some(chain[Len(chain)])
    /\ (out.op = "with_metadata" /\ Len(chain) >= 2) =>
          metadata(out.arg) = Some(chain[Len(chain) - 1])

\* a second with_metadata has replaced the metadata the first one attached
C11_Witness ==
    /\ Len(chain) = 2
    /\ chain[1] # chain[2]
    /\ out.op = "with_metadata"
    /\ metadata(out.arg) = Some(chain[1])
    /\ metadata(reg) = Some(chain[2])

\* C12: a call that has returned was served from the bytes contents() gives
\* for its File in this state (the cache entry in a debug build, the contents
\* field in a release build): contents() returned those bytes, and
\* contents_utf8() returned them unchanged as text when they are UTF-8 and
\* no value when they are not.
C12_Utf8OfTheSameBytes ==
    \A t \in Threads :
        pc[t] = "returned" =>
            LET b == IF debug_assertions THEN cache[self[t].path]
                     ELSE self[t].contents
            IN /\ op[t] = "contents" => ret[t] = Returned(b)
               /\ (op[t] = "contents_utf8" /\ b \in ValidUtf8) =>
                     (ret[t].kind = "text" /\ ret[t].bytes = b)
               /\ (op[t] = "contents_utf8" /\ b \in InvalidUtf8) =>
                     (ret[t].kind = "no_value" /\ ret[t].bytes = << >>)

\* in a debug build one call has returned a four-byte character as text while
\* another call on the same bytes returned them through contents()
C12_Witness ==
    /\ debug_assertions
    /\ \E t, u \in Threads :
          /\ pc[t] = "returned" /\ op[t] = "contents_utf8"
          /\ ret[t].kind = "text" /\ ret[t].bytes = <<240, 159, 152, 128>>
          /\ pc[u] = "returned" /\ op[u] = "contents"
          /\ ret[u].bytes = ret[t].bytes

\* C13: no step removes a cache entry or changes its bytes; the table changes
\* only by the insert of a contents() call, and every such insert adds a key
\* that the table did not hold at that moment.
C13_CacheAppendOnly ==
    [][/\ \A p \in DOMAIN cache :
             contains_key(cache', p) /\ cache'[p] = cache[p]
       /\ cache' # cache =>
             \E t \in Threads :
                 /\ pc[t] = "insert" /\ pc'[t] = "get"
                 /\ cache' = insert(cache, key(self[t]), value[t].v)
       /\ \A t \in Threads :
             (pc[t] = "insert" /\ pc'[t] # "insert") =>
                 /\ ~contains_key(cache, key(self[t]))
                 /\ contains_key(cache', key(self[t]))
      ]_vars

\* a second key has just been inserted while the first entry, whose file on
\* disk has changed since, is still there
C13_Witness ==
    /\ Cardinality(DOMAIN cache) = 2
    /\ \E t \in Threads : pc[t] = "get" /\ reads[self[t].path] = 1
    /\ \E p \in DOMAIN cache : fs_read(origin[p]) # Ok(cache[p])

\* C14: in a debug build a thread is between lock() and the drop of the guard
\* (at the membership check, the disk read, the insert or the get) exactly
\* when it is the holder of the lock, so at most one thread is there at a
\* time, the lock is held throughout, and the statements that read or change
\* the table are run by the holder only.
C14_MutualExclusion ==
    LET Inside == {t \in Threads : pc[t] \in {"check", "read", "insert", "get"}}
    IN /\ Cardinality(Inside) <= 1
       /\ \A t \in Threads : t \in Inside <=> holder = t
       /\ holder # NoThread => debug_assertions

\* one thread is at its disk read while every other thread waits for the lock
C14_Witness ==
    \E t \in Threads :
        /\ holder = t
        /\ pc[t] = "read"
        /\ \A u \in Threads \ {t} : pc[u] = "lock"

\* C15: while a thread is at the first-time disk read of a path, no step
\* completes another thread's call, by a return or by a panic, whatever path
\* that call is for, cached or not; the other thread does not even get past
\* lock().
C15_ReadBlocksEveryLookup ==
    [][\A t, u \in Threads :
          (t # u /\ pc[t] = "read") =>
              /\ pc[u] \in {"idle", "lock", "returned", "panicked"}
              /\ pc[u] = "lock" => pc'[u] = "lock"
              /\ pc'[u] \in {"returned", "panicked"} => pc[u] = pc'[u]
      ]_vars

\* a thread is at the disk read of one path while another waits at lock()
\* with a call for a different path that the cache already holds
C15_Witness ==
    \E t, u \in Threads :
        /\ pc[t] = "read"
        /\ pc[u] = "lock"
        /\ self[u].path # self[t].path
        /\ contains_key(cache, self[u].path)

\* C16: the Lazy initialiser that creates the table runs at most once; no
\* table exists while no thread has begun a content access, and then no call
\* is under way and nothing is cached; once any thread is inside contents()
\* in a debug build, whatever its File, the one table exists.
C16_OneTable ==
    /\ inits <= 1
    /\ lazy_init <=> inits = 1
    /\ ~lazy_init =>
          /\ cache = << >>
          /\ holder = NoThread
          /\ \A t \in Threads :
                debug_assertions => pc[t] = "idle"
    /\ \A t \in Threads :
          pc[t] \in {"lock", "check", "read", "insert", "get"} => inits = 1

\* every thread has begun its first contents() call before any took the
\* lock, on Files that are not all the same, and one table was created
C16_Witness ==
    /\ inits = 1
    /\ cache = << >>
    /\ \A p \in Paths : reads[p] = 0
    /\ \A t \in Threads : pc[t] = "lock"
    /\ \E t, u \in Threads : self[t].prefix # self[u].prefix

\* C17 as stated, for Files whose content resolves: the rendering names the
\* path and gives, in place of the bytes, the length of the bytes contents()
\* resolves to.
C17_DebugShowsResolvedLength ==
    (out.op = "fmt" /\ Resolve(out.arg).ok) =>
        /\ out.render.path = out.arg.path
        /\ out.render.contents =
              [fmt |-> "<{} bytes>", arg |-> Len(Resolve(out.arg).v)]

\* C17, amended: the rendering names the path and gives, in place of the
\* bytes, the length of the contents field, zero included; that is the length
\* of what contents() resolves to in a release build.  It shows the metadata,
\* and the prefix in a debug build only.
C17_DebugShowsFieldLength ==
    out.op = "fmt" =>
        /\ out.render.path = out.arg.path
        /\ out.render.contents =
              [fmt |-> "<{} bytes>", arg |-> Len(out.arg.contents)]
        /\ out.render.metadata = out.arg.metadata
        /\ out.render.fields =
              IF debug_assertions
              THEN <<"path", "contents", "metadata", "prefix">>
              ELSE <<"path", "contents", "metadata">>
        /\ debug_assertions => out.render.prefix = out.arg.prefix
        /\ ~debug_assertions =>
              out.render.contents.arg = Len(Resolve(out.arg).v)

\* a File of a debug build with an empty contents field, whose content
\* resolves to one byte, has been rendered as <0 bytes>
C17_Witness ==
    /\ debug_assertions
    /\ out.op = "fmt"
    /\ out.arg.contents = << >>
    /\ Resolve(out.arg) = Ok(<<255>>)
    /\ out.render.contents.arg = 0

\* C18: no step of new(), path(), with_metadata(), metadata(), == or Debug
\* rendering reads the disk, takes or poisons the lock, creates the table or
\* changes it; the path of a File changes with no such step but a new(), and
\* path() returns the path that new() was given.
C18_ValueOpsTouchNothing ==
    [][/\ reads' = reads
       /\ holder' = holder /\ poisoned' = poisoned
       /\ lazy_init' = lazy_init /\ inits' = inits
       /\ cache' = cache
       /\ disk' = disk
       /\ pc' = pc
       /\ out'.op \in {"new", "path", "with_metadata", "metadata", "eq", "fmt"}
       /\ out'.op # "new" => (reg'.path = reg.path /\ born' = born)
       /\ out'.op = "new" => reg'.path = born'
       /\ out'.op = "path" => out'.text = born'
      ]_vars

\* path() has returned the path given to new() for a File that with_metadata
\* has since rebuilt twice, in a debug build, with nothing read or cached
C18_Witness ==
    /\ debug_assertions
    /\ out.op = "path"
    /\ out.text = "b"
    /\ born = "b"
    /\ Len(chain) = 2
    /\ cache = << >> /\ ~lazy_init /\ holder = NoThread
    /\ \A p \in Paths : reads[p] = 0

\* C19 as stated: under fair scheduling every contents() call that has begun
\* ends, by a return or by a panic.
C19_EveryCallCompletes ==
    \A t \in Threads :
        (pc[t] \in {"lock", "check", "read", "insert", "get"})
            ~> (pc[t] \in {"returned", "panicked"})

\* C19, amended: under fair scheduling the lock is released after every
\* acquisition, a failed disk read included; a call that has taken the lock
\* ends, by a return or by a panic; and a call that waits for the lock does
\* not wait while the lock stays free: it goes on, or some thread holds the
\* lock.
C19_LockReleasedNoDeadlock ==
    \A t \in Threads :
        /\ (holder = t) ~> (holder = NoThread)
        /\ (pc[t] \in {"check", "read", "insert", "get"})
              ~> (pc[t] \in {"returned", "panicked"})
        /\ (pc[t] = "lock") ~> (pc[t] # "lock" \/ holder # NoThread)

\* the holder's disk read has failed and the lock is free again while
\* another call waits for it
C19_Witness ==
    \E t, u \in Threads :
        /\ pc[t] = "panicked"
        /\ ret[t].kind = "read_failed"
        /\ holder = NoThread
        /\ pc[u] = "lock"
====
